---- MODULE Spec2Model ----
(***************************************************************************)
(* Model of the link validation engine of django-tinylinks                 *)
(* (src/tinylinks/models.py): get_url_response, validate_long_url and the  *)
(* validation fields of the Tinylink model.                                *)
(*                                                                         *)
(* A call of validate_long_url is a sequence of steps, one per blocking    *)
(* network request; the clock may advance between the steps.  The outcome  *)
(* of every request (a response, or an exception of the HTTP library) is   *)
(* chosen nondeterministically.                                            *)
(***************************************************************************)
EXTENDS Integers, Sequences, FiniteSets, TLC

(* ------------------------------ bounds --------------------------------- *)

\* The clock runs from 0 to MaxTime.
MaxTime == 2

(* ------------------------------ strings -------------------------------- *)

\* A str is a sequence of characters.  SURROGATE stands for a lone
\* surrogate code point (e.g. "\ud800"), which UTF-8 cannot encode.
SURROGATE == "\\ud800"

Chars == {"h", "t", ".", "p", "d", "f", "e'", SURROGATE}

\* The UTF-8 bytes of one character; << >> for a character with no encoding.
Utf8Char(ch) ==
    CASE ch = "h" -> <<104>>
      [] ch = "t" -> <<116>>
      [] ch = "." -> <<46>>
      [] ch = "p" -> <<112>>
      [] ch = "d" -> <<100>>
      [] ch = "f" -> <<102>>
      [] ch = "e'" -> <<195, 169>>
      [] OTHER -> << >>

\* str.encode("utf-8") raises UnicodeEncodeError on a lone surrogate.
RaisesUnicodeEncodeError(s) == \E i \in 1..Len(s) : Utf8Char(s[i]) = << >>

RECURSIVE encode(_)
encode(s) == IF s = << >> THEN << >> ELSE Utf8Char(Head(s)) \o encode(Tail(s))

\* bytes.decode(): the inverse of encode on the bytes encode produces.
RECURSIVE decode(_)
decode(b) ==
    IF b = << >> THEN << >>
    ELSE IF Head(b) < 128
         THEN <<CHOOSE ch \in Chars : Utf8Char(ch) = <<Head(b)>> >> \o decode(Tail(b))
         ELSE <<CHOOSE ch \in Chars : Utf8Char(ch) = <<b[1], b[2]>> >>
                  \o decode(Tail(Tail(b)))

\* str.endswith(suffix)
endswith(s, suffix) ==
    /\ Len(s) >= Len(suffix)
    /\ SubSeq(s, Len(s) - Len(suffix) + 1, Len(s)) = suffix

DotPdf == <<".", "p", "d", "f">>

EmptyStr == << >>

\* The long URLs of the links under validation.
LongUrls ==
    { <<"h", "e'">>,                    \* an ordinary URL, non-ASCII
      <<"h", ".", "p", "d", "f">>,      \* ends with .pdf
      <<"h", "p", "d", "f">>,           \* ends with pdf, not with .pdf
      <<"h", SURROGATE>>,               \* not encodable
      <<SURROGATE, ".", "p", "d", "f">> \* not encodable, ends with .pdf
    }

\* The Location header a 302 response may carry.
RedirectTarget == <<"t", "e'">>

\* An optional str: None, or a str.
None == [isNone |-> TRUE, val |-> EmptyStr]
Some(s) == [isNone |-> FALSE, val |-> s]

(* ------------------------- validation errors --------------------------- *)

ErrUnicode == "Unicode error. Check URL characters."
ErrTimeout == "Timeout after 8 seconds."
ErrMaxRetry == "Failed after retrying twice."
ErrNotFound == "Not found."
ErrNotAccessible == "URL not accessible."

(* ----------------------------- exceptions ------------------------------ *)

\* The direct base class of each exception class the calls can raise.
ExcBase ==
    [ e \in { "urllib3.exceptions.TimeoutError", "urllib3.exceptions.MaxRetryError",
              "urllib3.exceptions.HTTPError", "socket.gaierror",
              "urllib.error.HTTPError", "urllib.error.URLError",
              "OSError", "AttributeError", "UnicodeEncodeError", "Exception" } |->
        CASE e = "urllib3.exceptions.TimeoutError" -> "urllib3.exceptions.HTTPError"
          [] e = "urllib3.exceptions.MaxRetryError" -> "urllib3.exceptions.HTTPError"
          [] e = "urllib3.exceptions.HTTPError" -> "Exception"
          [] e = "socket.gaierror" -> "OSError"
          [] e = "urllib.error.HTTPError" -> "urllib.error.URLError"
          [] e = "urllib.error.URLError" -> "OSError"
          [] e = "OSError" -> "Exception"
          [] e = "AttributeError" -> "Exception"
          [] e = "UnicodeEncodeError" -> "Exception"
          [] OTHER -> "Exception" ]

\* isinstance(e, cls), as an except clause tests it.
RECURSIVE IsInstance(_, _)
IsInstance(e, cls) ==
    \/ e = cls
    \/ e # "Exception" /\ IsInstance(ExcBase[e], cls)

\* The names the module imports from urllib3.exceptions.
HTTPError == "urllib3.exceptions.HTTPError"
MaxRetryError == "urllib3.exceptions.MaxRetryError"
TimeoutError == "urllib3.exceptions.TimeoutError"

NoExc == "none"

(* ------------------------------ responses ------------------------------ *)

\* `response = False`: no response object.
False == [ok |-> FALSE, status |-> 0, location |-> None]

HTTPResponse(status, location) == [ok |-> TRUE, status |-> status, location |-> location]

\* The statuses a pooled GET may answer; 404 stands for every status other
\* than 200, 302 and 502.
Statuses == {200, 302, 404, 502}

\* The outcomes of pool.urlopen("GET", url, retries=2, timeout=8.0): an
\* exception, or a response; a 302 response may lack its Location header.
PoolOutcomes ==
    { [exc |-> e, response |-> False] :
        e \in {TimeoutError, MaxRetryError, HTTPError, "socket.gaierror"} }
    \cup { [exc |-> NoExc, response |-> HTTPResponse(s, None)] : s \in Statuses }
    \cup { [exc |-> NoExc, response |-> HTTPResponse(302, Some(RedirectTarget))] }

\* HTTPResponse.get_redirect_location() of a 302 response.
get_redirect_location(response) == response.location

\* The outcomes of opener.open(request) with a cookie jar: urllib follows
\* redirects and raises on every status outside 2xx, so it returns a 2xx
\* code or raises.
OpenerOutcomes ==
    { [exc |-> NoExc, code |-> 200], [exc |-> NoExc, code |-> 204],
      [exc |-> "urllib.error.HTTPError", code |-> 0],
      [exc |-> "urllib.error.URLError", code |-> 0] }

\* The outcomes of urllib.request.urlopen(long_url, timeout=8.0): a 2xx
\* response, or an exception of urllib.
UrlopenOutcomes ==
    { [exc |-> NoExc, code |-> 200],
      [exc |-> "urllib.error.HTTPError", code |-> 0],
      [exc |-> "urllib.error.URLError", code |-> 0] }

(* ------------------------------ the link ------------------------------- *)

\* A Tinylink as created by the application: the field defaults.
NewLink(url, t) ==
    [ long_url |-> url, is_broken |-> FALSE, validation_error |-> "",
      last_checked |-> t, redirect_location |-> EmptyStr ]

\* MarkBroken without line 26: the redirect location of an earlier attempt
\* is kept.
MarkBroken_KeepsRedirect(link) == [link EXCEPT !.is_broken = TRUE]

\* Lines 24-26 of get_url_response: the link is broken until proven
\* reachable, and a redirect location of an earlier attempt is forgotten.
MarkBroken(link) == [link EXCEPT !.is_broken = TRUE, !.redirect_location = EmptyStr]

\* The except clauses of get_url_response, in their order; "" when no
\* clause catches the exception.
PoolErrorText(exc) ==
    IF IsInstance(exc, TimeoutError) THEN ErrTimeout
    ELSE IF IsInstance(exc, MaxRetryError) THEN ErrMaxRetry
    ELSE IF IsInstance(exc, HTTPError) \/ IsInstance(exc, "socket.gaierror")
         THEN ErrNotFound
    ELSE ""

\* get_url_response(pool, link, url) when the pooled GET would end with
\* `outcome`.  The result holds the mutated link, the value returned, the
\* exception that escapes (NoExc when none does) and the URL requested
\* (None when no request was sent).
get_url_response(link, url, outcome) ==
    LET l1 == MarkBroken(link) IN
    IF url.isNone
    THEN \* None.encode: 'NoneType' object has no attribute 'encode'
         [link |-> l1, response |-> False, raised |-> "AttributeError", request |-> None]
    ELSE IF RaisesUnicodeEncodeError(url.val)
    THEN [link |-> [l1 EXCEPT !.validation_error = ErrUnicode],
          response |-> False, raised |-> NoExc, request |-> None]
    ELSE LET sent == Some(decode(encode(url.val))) IN
         IF outcome.exc = NoExc
         THEN [link |-> l1, response |-> outcome.response, raised |-> NoExc,
               request |-> sent]
         ELSE IF PoolErrorText(outcome.exc) # ""
         THEN [link |-> [l1 EXCEPT !.validation_error = PoolErrorText(outcome.exc)],
               response |-> False, raised |-> NoExc, request |-> sent]
         ELSE [link |-> l1, response |-> False, raised |-> outcome.exc, request |-> sent]

\* RecordRedirect with the assignment of line 65 lost (as when it is made
\* before get_url_response, which resets the field).
RecordRedirect_Lost(link, location) == link

\* Line 65: link.redirect_location = redirect_location
RecordRedirect(link, location) == [link EXCEPT !.redirect_location = location]

\* MarkReachable that clears a leftover error text, but marks the link
\* reachable only when there was none to clear (an else where a sequence was
\* meant).
MarkReachable_ElseSlip(link) ==
    IF link.validation_error # ""
    THEN [link EXCEPT !.validation_error = ""]
    ELSE [link EXCEPT !.is_broken = FALSE]

\* MarkReachable that also clears the validation error.
MarkReachable_ClearsError(link) ==
    [link EXCEPT !.is_broken = FALSE, !.validation_error = ""]

\* Lines 56, 61, 67, 76, 85: link.is_broken = False
MarkReachable(link) == [link EXCEPT !.is_broken = FALSE]

\* MarkNotAccessible with the assignment lost: the text get_url_response set
\* (or an earlier one) stays.
MarkNotAccessible_Lost(link) == link

\* Lines 83, 87: link.validation_error = _("URL not accessible.")
MarkNotAccessible(link) == [link EXCEPT !.validation_error = ErrNotAccessible]

\* IsPdf testing equality with ".pdf" where the code tests the suffix.
IsPdf_Equals(link) == link.long_url = DotPdf

\* Line 59: link.long_url.endswith(".pdf")
IsPdf(link) == endswith(link.long_url, DotPdf)

\* Line 82: the except clause around urlopen names HTTPError, which line 12
\* binds to urllib3.exceptions.HTTPError.
FallbackCaught(exc) == IsInstance(exc, HTTPError)

\* SkipsValidation with the force argument ignored.
SkipsValidation_IgnoresForce(flag, force_validation) == ~flag

\* Line 51: not TINYLINK_VALIDATION_ENABLED and not force_validation
SkipsValidation(flag, force_validation) == ~flag /\ ~force_validation

\* LooksLikeLoop taking every answer of the redirect target but 200 for a
\* loop (an else where the code has elif).
LooksLikeLoop_AnyOther(redirect) == redirect.status # 200

\* Line 68: redirect.status == 302, when line 66 found it is not 200.
LooksLikeLoop(redirect) == redirect.status = 302

(* ------------------------------- state --------------------------------- *)

\* The callers of the validator.  Spec runs caller 1 alone.
Callers == {1, 2}

VARIABLES
    now,        \* the clock, timezone.now()
    enabled,    \* TINYLINK_VALIDATION_ENABLED
    db,         \* the saved row of the link
    link,       \* link[c]: the Tinylink instance caller c passed to the validator
    pc,         \* pc[c]: where caller c's call of validate_long_url stands
    force,      \* force[c]: the force_validation argument of the call
    started,    \* started[c]: the time the call (before it, the cooldown check) started
    prior,      \* prior[c]: the link as it was when the call started
    response,   \* response[c]: the value of the first get_url_response
    requests,   \* requests[c]: the outbound requests of the call and how each
                \* ended, in order
    saves,      \* saves[c]: the number of link.save() of the call
    raised      \* raised[c]: the exception that escaped the call, or NoExc

vars == <<now, enabled, db, link, pc, force, started, prior, response, requests,
          saves, raised>>

Init ==
    /\ now = 0
    /\ enabled \in BOOLEAN
    /\ \E url \in LongUrls :
          /\ db = NewLink(url, 0)
          /\ link = [c \in Callers |-> NewLink(url, 0)]
          /\ prior = [c \in Callers |-> NewLink(url, 0)]
    /\ pc = [c \in Callers |-> "idle"]
    /\ force = [c \in Callers |-> FALSE]
    /\ started = [c \in Callers |-> 0]
    /\ response = [c \in Callers |-> False]
    /\ requests = [c \in Callers |-> << >>]
    /\ saves = [c \in Callers |-> 0]
    /\ raised = [c \in Callers |-> NoExc]

\* Time passes.
Tick ==
    /\ now < MaxTime
    /\ now' = now + 1
    /\ UNCHANGED <<enabled, db, link, pc, force, started, prior, response, requests,
                   saves, raised>>

\* The requests of a call grow by one request of `client` to `url` that ended
\* with exception `exc` (NoExc: none) or with a response of `status`.
Sent(c, client, url, exc, status) ==
    [requests EXCEPT ![c] =
        Append(@, [client |-> client, url |-> url, exc |-> exc, status |-> status])]

\* The requests after a get_url_response that returned r on outcome o.
SentByPool(c, r, o) ==
    IF r.request.isNone THEN requests
    ELSE Sent(c, "pool", r.request.val, o.exc, o.response.status)

\* Lines 44-53: caller c calls validate_long_url(link, force_validation) on
\* the link as saved; the call returns at once when validation is disabled
\* and not forced.
Call(c) ==
    /\ pc[c] = "idle"
    /\ \E f \in BOOLEAN :
          /\ force' = [force EXCEPT ![c] = f]
          /\ pc' = [pc EXCEPT ![c] = IF SkipsValidation(enabled, f) THEN "returned" ELSE "get1"]
    /\ link' = [link EXCEPT ![c] = db]
    /\ prior' = [prior EXCEPT ![c] = db]
    /\ started' = [started EXCEPT ![c] = now]
    /\ UNCHANGED <<now, enabled, db, response, requests, saves, raised>>

\* Lines 54-61, 77, 86-87: the first get_url_response and the branch on its
\* status.
FirstGet(c) ==
    /\ pc[c] = "get1"
    /\ \E o \in PoolOutcomes :
          LET r == get_url_response(link[c], Some(link[c].long_url), o)
              resp == r.response
          IN  /\ response' = [response EXCEPT ![c] = resp]
              /\ requests' = SentByPool(c, r, o)
              /\ IF r.raised # NoExc
                 THEN /\ link' = [link EXCEPT ![c] = r.link]
                      /\ raised' = [raised EXCEPT ![c] = r.raised]
                      /\ pc' = [pc EXCEPT ![c] = "raised"]
                 ELSE /\ raised' = raised
                      /\ IF resp.ok /\ resp.status = 200
                         THEN /\ link' = [link EXCEPT ![c] = MarkReachable(r.link)]
                              /\ pc' = [pc EXCEPT ![c] = "finish"]
                         ELSE IF resp.ok /\ resp.status = 302
                         THEN IF IsPdf(r.link)
                              THEN /\ link' = [link EXCEPT ![c] = MarkReachable(r.link)]
                                   /\ pc' = [pc EXCEPT ![c] = "finish"]
                              ELSE /\ link' = [link EXCEPT ![c] = r.link]
                                   /\ pc' = [pc EXCEPT ![c] = "get2"]
                         ELSE IF resp.ok /\ resp.status = 502
                         THEN /\ link' = [link EXCEPT ![c] = r.link]
                              /\ pc' = [pc EXCEPT ![c] = "fallback"]
                         ELSE /\ link' = [link EXCEPT ![c] = MarkNotAccessible(r.link)]
                              /\ pc' = [pc EXCEPT ![c] = "finish"]
    /\ UNCHANGED <<now, enabled, db, force, started, prior, saves>>

\* Lines 63-70: the GET to the redirect target and the branch on its status.
\* `redirect.status` raises AttributeError when redirect is False.
SecondGet(c) ==
    /\ pc[c] = "get2"
    /\ \E o \in PoolOutcomes :
          LET redirect_location == get_redirect_location(response[c])
              r == get_url_response(link[c], redirect_location, o)
              redirect == r.response
              l2 == RecordRedirect(r.link, redirect_location.val)
          IN  /\ requests' = SentByPool(c, r, o)
              /\ IF r.raised # NoExc
                 THEN /\ link' = [link EXCEPT ![c] = r.link]
                      /\ raised' = [raised EXCEPT ![c] = r.raised]
                      /\ pc' = [pc EXCEPT ![c] = "raised"]
                 ELSE IF ~redirect.ok
                 THEN /\ link' = [link EXCEPT ![c] = l2]
                      /\ raised' = [raised EXCEPT ![c] = "AttributeError"]
                      /\ pc' = [pc EXCEPT ![c] = "raised"]
                 ELSE /\ raised' = raised
                      /\ IF redirect.status = 200
                         THEN /\ link' = [link EXCEPT ![c] = MarkReachable(l2)]
                              /\ pc' = [pc EXCEPT ![c] = "finish"]
                         ELSE IF LooksLikeLoop(redirect)
                         THEN /\ link' = [link EXCEPT ![c] = l2]
                              /\ pc' = [pc EXCEPT ![c] = "cookie"]
                         ELSE /\ link' = [link EXCEPT ![c] = l2]
                              /\ pc' = [pc EXCEPT ![c] = "finish"]
    /\ UNCHANGED <<now, enabled, db, force, started, prior, response, saves>>

\* Lines 71-76: one fetch of the first response's redirect target through an
\* opener with a cookie jar.  An exception of the opener is not caught.
CookieGet(c) ==
    /\ pc[c] = "cookie"
    /\ \E o \in OpenerOutcomes :
          /\ requests' = Sent(c, "cookie", get_redirect_location(response[c]).val,
                              o.exc, o.code)
          /\ IF o.exc # NoExc
             THEN /\ raised' = [raised EXCEPT ![c] = o.exc]
                  /\ pc' = [pc EXCEPT ![c] = "raised"]
                  /\ link' = link
             ELSE /\ raised' = raised
                  /\ pc' = [pc EXCEPT ![c] = "finish"]
                  /\ link' = IF o.code = 200
                             THEN [link EXCEPT ![c] = MarkReachable(@)]
                             ELSE link
    /\ UNCHANGED <<now, enabled, db, force, started, prior, response, saves>>

\* Lines 77-85: the re-check of a 502 with urllib's urlopen.
Fallback(c) ==
    /\ pc[c] = "fallback"
    /\ \E o \in UrlopenOutcomes :
          /\ requests' = Sent(c, "plain", link[c].long_url, o.exc, o.code)
          /\ IF o.exc = NoExc
             THEN /\ link' = [link EXCEPT ![c] = MarkReachable(@)]
                  /\ raised' = raised
                  /\ pc' = [pc EXCEPT ![c] = "finish"]
             ELSE IF FallbackCaught(o.exc)
             THEN /\ link' = [link EXCEPT ![c] = MarkNotAccessible(@)]
                  /\ raised' = raised
                  /\ pc' = [pc EXCEPT ![c] = "finish"]
             ELSE /\ link' = link
                  /\ raised' = [raised EXCEPT ![c] = o.exc]
                  /\ pc' = [pc EXCEPT ![c] = "raised"]
    /\ UNCHANGED <<now, enabled, db, force, started, prior, response, saves>>

\* Line 88: link.last_checked = timezone.now()
Touch(link_, t) == [link_ EXCEPT !.last_checked = t]

\* Finish without line 89: the link is returned but never saved.
Finish_NoSave(c) ==
    /\ pc[c] = "finish"
    /\ link' = [link EXCEPT ![c] = Touch(@, now)]
    /\ pc' = [pc EXCEPT ![c] = "returned"]
    /\ UNCHANGED <<now, enabled, db, force, started, prior, response, requests, saves,
                   raised>>

\* Lines 88-90: refresh last_checked, save the link, return it.
Finish(c) ==
    /\ pc[c] = "finish"
    /\ link' = [link EXCEPT ![c] = Touch(@, now)]
    /\ db' = link'[c]
    /\ saves' = [saves EXCEPT ![c] = @ + 1]
    /\ pc' = [pc EXCEPT ![c] = "returned"]
    /\ UNCHANGED <<now, enabled, force, started, prior, response, requests, raised>>

\* The caller is done with the call (returned or raised) and may call again.
Return(c) ==
    /\ pc[c] \in {"returned", "raised"}
    /\ pc' = [pc EXCEPT ![c] = "idle"]
    /\ force' = [force EXCEPT ![c] = FALSE]
    /\ started' = [started EXCEPT ![c] = 0]
    /\ link' = [link EXCEPT ![c] = db]
    /\ prior' = [prior EXCEPT ![c] = db]
    /\ response' = [response EXCEPT ![c] = False]
    /\ requests' = [requests EXCEPT ![c] = << >>]
    /\ saves' = [saves EXCEPT ![c] = 0]
    /\ raised' = [raised EXCEPT ![c] = NoExc]
    /\ UNCHANGED <<now, enabled, db>>

Step(c) ==
    \/ Call(c)
    \/ FirstGet(c)
    \/ SecondGet(c)
    \/ CookieGet(c)
    \/ Fallback(c)
    \/ Finish(c)
    \/ Return(c)

\* One caller validates the link again and again.
Next == Tick \/ Step(1)

Spec == Init /\ [][Next]_vars

\* The caller passes the link a call has just returned to validate_long_url
\* again, in immediate succession: the same instance, the requests and saves
\* of both calls counted together.
CallAgain(c) ==
    /\ pc[c] = "returned"
    /\ saves[c] < 2
    /\ \E f \in BOOLEAN :
          /\ force' = [force EXCEPT ![c] = f]
          /\ pc' = [pc EXCEPT ![c] = IF SkipsValidation(enabled, f) THEN "returned" ELSE "get1"]
    /\ prior' = [prior EXCEPT ![c] = link[c]]
    /\ started' = [started EXCEPT ![c] = now]
    /\ UNCHANGED <<now, enabled, db, link, response, requests, saves, raised>>

\* One caller validates the link, and may validate the returned link again
\* at once.
NextTwice == Tick \/ Step(1) \/ CallAgain(1)

SpecTwice == Init /\ [][NextTwice]_vars

(* ------------------------------ cooldown ------------------------------- *)

\* Line 172: timezone.timedelta(minutes=60); the clock counts minutes.
CooldownMinutes == 60

\* can_be_validated with the timedelta forgotten: any earlier validation
\* allows the next.
can_be_validated_NoCooldown(self, t) == self.last_checked < t

\* Tinylink.can_be_validated(self) at time t (lines 166-174).
can_be_validated(self, t) == self.last_checked < t - CooldownMinutes

\* An hour passes at once.
Wait ==
    /\ now <= MaxTime
    /\ now' = now + CooldownMinutes
    /\ UNCHANGED <<enabled, db, link, pc, force, started, prior, response, requests,
                   saves, raised>>

\* Caller c loads the link and asks link.can_be_validated().
CheckCooldown(c) ==
    /\ pc[c] = "idle"
    /\ link' = [link EXCEPT ![c] = db]
    /\ prior' = [prior EXCEPT ![c] = db]
    /\ started' = [started EXCEPT ![c] = now]
    /\ pc' = [pc EXCEPT ![c] = IF can_be_validated(db, now) THEN "allowed" ELSE "refused"]
    /\ UNCHANGED <<now, enabled, db, force, response, requests, saves, raised>>

\* Caller c was refused and leaves the link alone.
Refused(c) ==
    /\ pc[c] = "refused"
    /\ pc' = [pc EXCEPT ![c] = "idle"]
    /\ started' = [started EXCEPT ![c] = 0]
    /\ UNCHANGED <<now, enabled, db, link, force, prior, response, requests, saves,
                   raised>>

\* Lines 44-53: caller c, allowed by can_be_validated, calls
\* validate_long_url on the instance it checked.
CallChecked(c) ==
    /\ pc[c] = "allowed"
    /\ \E f \in BOOLEAN :
          /\ force' = [force EXCEPT ![c] = f]
          /\ pc' = [pc EXCEPT ![c] = IF SkipsValidation(enabled, f) THEN "returned" ELSE "get1"]
    /\ started' = [started EXCEPT ![c] = now]
    /\ UNCHANGED <<now, enabled, db, link, prior, response, requests, saves, raised>>

\* Two callers, each checking the cooldown and then validating, with no
\* mutual exclusion between them.
NextRace ==
    \/ Tick
    \/ Wait
    \/ \E c \in Callers :
          \/ CheckCooldown(c)
          \/ Refused(c)
          \/ CallChecked(c)
          \/ FirstGet(c)
          \/ SecondGet(c)
          \/ CookieGet(c)
          \/ Fallback(c)
          \/ Finish(c)
          \/ Return(c)

SpecRace == Init /\ [][NextRace]_vars

(* ----------------------- vocabulary of the claims ---------------------- *)

\* The call of caller c has ended: it returned the link, or an exception
\* escaped it.
Ended(c) == pc[c] \in {"returned", "raised"}

\* The call of caller c performs a validation attempt (it is not skipped).
Attempted(c) == pc[c] # "idle" /\ (enabled \/ force[c])

\* The call of caller c has made its n-th request.
Made(c, n) == Len(requests[c]) >= n

\* The n-th request of the call was answered with `status`.
Answered(c, n, status) ==
    /\ Made(c, n)
    /\ requests[c][n].exc = NoExc
    /\ requests[c][n].status = status

\* The n-th request of the call ended with exception `exc`.
Failed(c, n, exc) == Made(c, n) /\ requests[c][n].exc = exc

\* The first GET returned 302 and the validator follows the redirect.
Followed(c) == Answered(c, 1, 302) /\ ~endswith(link[c].long_url, DotPdf)

(* ------------------------------- claims -------------------------------- *)

\* C1: after every call of validate_long_url that performs a validation
\* attempt and returns, the link is not broken, or it is broken and its
\* validation_error is not empty.
C1_BrokenHasError ==
    \A c \in Callers :
        pc[c] = "returned" /\ Attempted(c) =>
            \/ ~link[c].is_broken
            \/ link[c].is_broken /\ link[c].validation_error # ""

\* C2: validate_long_url never raises to its caller, whatever the outcome
\* of the first GET, of the GET to the redirect target, of the cookie-jar
\* fetch and of the 502 fallback fetch; and every call that leaves the link
\* broken leaves it with a populated validation_error.
C2_NeverRaises ==
    \A c \in Callers :
        /\ pc[c] # "raised"
        /\ raised[c] = NoExc
        /\ Ended(c) /\ Attempted(c) /\ link[c].is_broken =>
               link[c].validation_error # ""

\* C3: every validation attempt, whether it succeeds or fails and whichever
\* branch it takes, sets last_checked to the current time: once the call has
\* ended, last_checked is at least the time the call started.
C3_LastCheckedRefreshed ==
    \A c \in Callers :
        Ended(c) /\ Attempted(c) => link[c].last_checked >= started[c]

\* C4: when long_url cannot be encoded as UTF-8, the call ends with
\* is_broken = true, validation_error = "Unicode error. Check URL
\* characters." and without any network call.
C4_UnicodeError ==
    \A c \in Callers :
        Ended(c) /\ Attempted(c) /\ RaisesUnicodeEncodeError(link[c].long_url) =>
            /\ link[c].is_broken
            /\ link[c].validation_error = ErrUnicode
            /\ requests[c] = << >>

\* C5: when the first GET fails, the final validation_error names the kind
\* of the failure (timeout, retries exhausted, transport or DNS failure) and
\* the link is broken.
C5_FirstGetErrorText ==
    \A c \in Callers :
        Ended(c) =>
            /\ Failed(c, 1, TimeoutError) =>
                   link[c].is_broken /\ link[c].validation_error = ErrTimeout
            /\ Failed(c, 1, MaxRetryError) =>
                   link[c].is_broken /\ link[c].validation_error = ErrMaxRetry
            /\ Failed(c, 1, HTTPError) \/ Failed(c, 1, "socket.gaierror") =>
                   link[c].is_broken /\ link[c].validation_error = ErrNotFound

\* C6: when the first GET returns 200, the call ends with is_broken = false
\* and an empty validation_error, whatever the link was before the call.
C6_OkClearsError ==
    \A c \in Callers :
        Ended(c) /\ Answered(c, 1, 200) =>
            ~link[c].is_broken /\ link[c].validation_error = ""

\* C7: when the first GET returns 502, the validator makes exactly one
\* fallback fetch of long_url with the plain client; the link ends not
\* broken if the fetch succeeds, and broken with validation_error = "URL not
\* accessible." if the fetch fails.
C7_FallbackVerdict ==
    \A c \in Callers :
        Ended(c) /\ Answered(c, 1, 502) =>
            /\ Len(requests[c]) = 2
            /\ requests[c][2].client = "plain"
            /\ requests[c][2].url = link[c].long_url
            /\ requests[c][2].exc = NoExc => ~link[c].is_broken
            /\ requests[c][2].exc # NoExc =>
                   link[c].is_broken /\ link[c].validation_error = ErrNotAccessible

\* C8: when the first GET returns 302 (long_url not ending in .pdf) and the
\* GET to the redirect target returns 302 again, the validator makes one
\* further fetch of the redirect target through the cookie-jar client; the
\* link ends not broken iff that fetch answers 200, and otherwise the call
\* completes with is_broken = true.
C8_CookieVerdict ==
    \A c \in Callers :
        Ended(c) /\ Followed(c) /\ Answered(c, 2, 302) =>
            /\ Len(requests[c]) = 3
            /\ requests[c][3].client = "cookie"
            /\ requests[c][3].url = get_redirect_location(response[c]).val
            /\ ~link[c].is_broken <=> Answered(c, 3, 200)
            /\ ~Answered(c, 3, 200) => pc[c] = "returned" /\ link[c].is_broken

\* C9: when the first GET returns 302 (long_url not ending in .pdf) and the
\* GET to the redirect target returns 200, the link ends with
\* is_broken = false and redirect_location equal to the redirect target of
\* the first response.
C9_RedirectResolved ==
    \A c \in Callers :
        pc[c] = "returned" /\ Followed(c) /\ Answered(c, 2, 200) =>
            /\ ~link[c].is_broken
            /\ link[c].redirect_location = get_redirect_location(response[c]).val
            /\ link[c].redirect_location = requests[c][2].url
            /\ link[c].redirect_location # EmptyStr
            /\ Len(requests[c]) = 2

\* C9 happens: a call that followed a redirect to a target answering 200 has
\* returned.
C9_Witness ==
    /\ pc[1] = "returned"
    /\ Followed(1)
    /\ Answered(1, 2, 200)
    /\ link[1].redirect_location = RedirectTarget

\* C10: when the first GET returns 302 and long_url ends with ".pdf", the
\* link ends with is_broken = false, the call has made exactly one outbound
\* request, and no redirect_location is recorded.
C10_PdfNotFollowed ==
    \A c \in Callers :
        Ended(c) /\ Answered(c, 1, 302) /\ endswith(link[c].long_url, DotPdf) =>
            /\ pc[c] = "returned"
            /\ ~link[c].is_broken
            /\ Len(requests[c]) = 1
            /\ link[c].redirect_location = EmptyStr

\* C10 happens: a call on a .pdf URL whose first GET answered 302 with a
\* Location header has returned.
C10_Witness ==
    /\ pc[1] = "returned"
    /\ endswith(link[1].long_url, DotPdf)
    /\ Answered(1, 1, 302)
    /\ ~response[1].location.isNone
    /\ ~link[1].is_broken

\* C11: when the first GET yields a status other than 200, 302 and 502, or
\* yields no response object at all, the call returns with is_broken = true
\* and validation_error = "URL not accessible.".
C11_OtherStatusNotAccessible ==
    \A c \in Callers :
        Ended(c) /\ Attempted(c)
          /\ (~response[c].ok \/ response[c].status \notin {200, 302, 502}) =>
            /\ pc[c] = "returned"
            /\ link[c].is_broken
            /\ link[c].validation_error = ErrNotAccessible
            /\ db.validation_error = ErrNotAccessible

\* C11 happens: a call whose first GET answered 404 has returned.
C11_Witness ==
    /\ pc[1] = "returned"
    /\ Answered(1, 1, 404)
    /\ link[1].is_broken

\* C12: after a validation attempt, redirect_location is not empty only if
\* the attempt followed a redirect (first GET 302, long_url not ending in
\* .pdf); after an attempt that followed no redirect it is empty, even if an
\* earlier attempt had set it.
C12_RedirectOnlyWhenFollowed ==
    \A c \in Callers :
        Ended(c) /\ Attempted(c) =>
            /\ link[c].redirect_location # EmptyStr =>
                   /\ Followed(c)
                   /\ link[c].redirect_location = get_redirect_location(response[c]).val
            /\ ~Followed(c) => link[c].redirect_location = EmptyStr
            /\ pc[c] = "returned" => db.redirect_location = link[c].redirect_location

\* C12 happens: an attempt that followed no redirect has returned on a link
\* whose earlier attempt had recorded a redirect location.
C12_Witness ==
    /\ pc[1] = "returned"
    /\ Attempted(1)
    /\ prior[1].redirect_location # EmptyStr
    /\ ~Followed(1)
    /\ link[1].redirect_location = EmptyStr

C14_RequestCount ==
    \A c \in Callers :
        /\ Len(requests[c]) <= 3
        /\ Len(requests[c]) = 3 =>
               /\ Followed(c) /\ Answered(c, 2, 302)
               /\ requests[c][3].client = "cookie"
        /\ Len(requests[c]) = 2 => requests[c][2].client \in {"pool", "plain"}
        /\ Ended(c) /\ Len(requests[c]) = 0 =>
               ~Attempted(c) \/ RaisesUnicodeEncodeError(link[c].long_url)

\* C14 happens: a call on the cookie-loop path has returned after three
\* requests.
C14_Witness ==
    /\ pc[1] = "returned"
    /\ Len(requests[1]) = 3
    /\ Answered(1, 1, 302)
    /\ Answered(1, 2, 302)

\* C15: with the flag disabled and force_validation false the call returns
\* at once: no request, the link and the saved row unchanged, no save; with
\* force_validation true the validation is performed whatever the flag.
C15_SkipAndForce ==
    \A c \in Callers :
        /\ pc[c] # "idle" /\ ~enabled /\ ~force[c] =>
               /\ pc[c] = "returned"
               /\ requests[c] = << >>
               /\ link[c] = prior[c]
               /\ db = prior[c]
               /\ saves[c] = 0
               /\ raised[c] = NoExc
        /\ Ended(c) /\ force[c] =>
               /\ Made(c, 1) \/ RaisesUnicodeEncodeError(link[c].long_url)
               /\ pc[c] = "returned" =>
                      saves[c] = 1 /\ link[c].last_checked >= started[c]

\* C15 happens: a call was skipped on a link that an earlier, forced call
\* had marked broken at an earlier time.
C15_Witness ==
    /\ pc[1] = "returned"
    /\ ~enabled
    /\ ~force[1]
    /\ prior[1].is_broken
    /\ link[1] = prior[1]
    /\ link[1].last_checked < started[1]

\* C18: when the first GET returns 302 (long_url not ending in .pdf) and
\* the GET to the redirect target fails at transport level or answers a
\* status other than 200 and 302, the call completes with is_broken = true
\* and a validation_error that is not empty (for a transport failure, the
\* text of that failure), last_checked refreshed and the link saved.
C18_RedirectFailure ==
    \A c \in Callers :
        Ended(c) /\ Followed(c) /\ Made(c, 2)
          /\ ~Answered(c, 2, 200) /\ ~Answered(c, 2, 302) =>
            /\ pc[c] = "returned"
            /\ link[c].is_broken
            /\ link[c].validation_error # ""
            /\ requests[c][2].exc # NoExc =>
                   link[c].validation_error = PoolErrorText(requests[c][2].exc)
            /\ link[c].last_checked >= started[c]
            /\ saves[c] = 1

\* C20: no step of validate_long_url or get_url_response assigns the empty
\* string to validation_error: once the validation_error of the saved link,
\* or of the instance within a call, is not empty, it stays not empty; a
\* later successful validation keeps the text.
C20_ErrorNeverCleared ==
    [][ /\ db.validation_error # "" => db'.validation_error # ""
        /\ \A c \in Callers :
              pc[c] # "idle" /\ pc'[c] # "idle" /\ link[c].validation_error # "" =>
                  link'[c].validation_error # ""
        /\ \A c \in Callers :
              pc[c] = "finish" /\ pc'[c] = "returned" /\ Answered(c, 1, 200) =>
                  /\ ~link'[c].is_broken
                  /\ link'[c].validation_error = prior[c].validation_error
      ]_vars

\* C20 happens: a validation answered 200 has returned on a link whose
\* earlier validation had failed: not broken, the earlier text still there.
C20_Witness ==
    /\ pc[1] = "returned"
    /\ Answered(1, 1, 200)
    /\ ~link[1].is_broken
    /\ prior[1].is_broken
    /\ link[1].validation_error = ErrNotAccessible
    /\ db.validation_error = ErrNotAccessible

\* C17: two calls of validate_long_url in immediate succession, both
\* answered 200 by the first GET, leave the same is_broken, validation_error
\* and redirect_location after the second call as after the first, whatever
\* the link was before.
C17_Idempotent ==
    \A c \in Callers :
        pc[c] = "returned" /\ saves[c] = 2 /\ Len(requests[c]) = 2
          /\ Answered(c, 1, 200) /\ Answered(c, 2, 200) =>
            /\ link[c].is_broken = prior[c].is_broken
            /\ link[c].validation_error = prior[c].validation_error
            /\ link[c].redirect_location = prior[c].redirect_location
            /\ db = link[c]

\* C17 happens: the second of two calls answered 200 has returned, on a link
\* that an earlier validation had left with an error text.
C17_Witness ==
    /\ pc[1] = "returned"
    /\ saves[1] = 2
    /\ Len(requests[1]) = 2
    /\ Answered(1, 1, 200)
    /\ Answered(1, 2, 200)
    /\ link[1].validation_error # ""
    /\ ~link[1].is_broken

\* C16: can_be_validated returns true if and only if at least 60 minutes
\* have passed since last_checked: true at exactly 60 minutes, false for any
\* shorter interval.
C16_AtLeastSixtyMinutes ==
    \A c \in Callers :
        pc[c] \in {"allowed", "refused"} =>
            (pc[c] = "allowed" <=> started[c] - link[c].last_checked >= CooldownMinutes)

\* A caller between a successful cooldown check and the end of its call.
Admitted(c) == pc[c] \notin {"idle", "refused"}

\* C19: every caller that validates was allowed by can_be_validated on the
\* instance it loaded, at least 60 minutes after that instance's
\* last_checked; nothing else stands between the check and the validation:
\* an admitted caller can always go on to validate and to save, whatever the
\* other caller is doing, so two callers can both be admitted on the same
\* old last_checked and both validate and save (C19_Witness).
C19_CheckIsAdvisory ==
    \A c \in Callers :
        Admitted(c) =>
            /\ started[c] - prior[c].last_checked >= CooldownMinutes
            /\ pc[c] = "allowed" => link[c] = prior[c] /\ ENABLED CallChecked(c)
            /\ pc[c] = "get1" => ENABLED FirstGet(c)
            /\ pc[c] = "finish" => ENABLED Finish(c)
            /\ saves[c] <= 1

\* C19 happens: both callers passed the cooldown check on the same
\* last_checked, before either wrote it, and both have validated and saved
\* the link, less than 60 minutes apart.
C19_Witness ==
    /\ pc[1] = "returned" /\ pc[2] = "returned"
    /\ Made(1, 1) /\ Made(2, 1)
    /\ saves[1] = 1 /\ saves[2] = 1
    /\ prior[1].last_checked = prior[2].last_checked
    /\ link[1].last_checked > prior[1].last_checked
    /\ link[2].last_checked > prior[2].last_checked
    /\ link[1].last_checked - link[2].last_checked < CooldownMinutes
    /\ link[2].last_checked - link[1].last_checked < CooldownMinutes

====
